---- MODULE Spec2Model ----
(***************************************************************************)
(* skills/audit-logger/get_timestamp.py                                    *)
(*                                                                         *)
(*   6  from datetime import datetime                                      *)
(*   8  if __name__ == "__main__":                                         *)
(*   9      timestamp = datetime.now().strftime("%Y-%m-%d %H:%M:%S")       *)
(*  10      print(timestamp)                                               *)
(*                                                                         *)
(* The state is the host (its clock, the C library's strftime, the         *)
(* persisted state outside the process) and, for every run of the file,    *)
(* the run's inputs (__name__, argv, environment), its position in the     *)
(* file, its two values (the datetime and the string `timestamp`) and what *)
(* it has written to standard output.                                      *)
(***************************************************************************)
EXTENDS Integers, Sequences, FiniteSets

VARIABLES
    clock,              \* host clock: [ord, sec, leap] in UTC
    readable,           \* whether the host clock can be read at all
    ticks,              \* seconds elapsed since the first state
    normalize_century,  \* whether this build's strftime pads %Y to 4 digits
    fs,                 \* files, network, persisted state outside a run
    pc,                 \* run -> position in the file
    name,               \* run -> __name__
    argv,               \* run -> command-line arguments
    env,                \* run -> environment variables
    t_start,            \* run -> value of ticks when the run was started
    t_now,              \* run -> value of ticks when it read the clock
    reads,              \* run -> number of clock reads it made
    tm,                 \* run -> the struct tm localtime() gave it
    dt,                 \* run -> the datetime returned by datetime.now()
    timestamp,          \* run -> the module global `timestamp`
    stdout,             \* run -> sequence of writes to standard output
    exit_code           \* run -> process exit status

host == <<clock, readable, ticks, normalize_century, fs>>
inputs == <<name, argv, env, t_start>>
locals == <<t_now, reads, tm, dt, timestamp>>
vars == <<host, inputs, locals, pc, stdout, exit_code>>

\* ---------------------------------------------------------------- bounds

\* seconds the clock advances in one behaviour
MaxTicks == 3

\* the runs of the file (two, for the claims about pairs of runs)
Runs == {1, 2}

\* ------------------------------------------------- datetime's calendar

MINYEAR == 1
MAXYEAR == 9999

SecondsPerDay == 24 * 60 * 60

IsLeap(y) == y % 4 = 0 /\ (y % 100 # 0 \/ y % 400 = 0)

DaysInMonth(y, m) ==
    IF m = 2 THEN (IF IsLeap(y) THEN 29 ELSE 28)
    ELSE IF m \in {4, 6, 9, 11} THEN 30 ELSE 31

\* _DAYS_BEFORE_MONTH, for a non-leap year
DaysBeforeMonthTable == <<0, 31, 59, 90, 120, 151, 181, 212, 243, 273, 304, 334>>

DaysBeforeYear(y) ==
    LET p == y - 1 IN p * 365 + p \div 4 - p \div 100 + p \div 400

DaysBeforeMonth(y, m) ==
    DaysBeforeMonthTable[m] + (IF m > 2 /\ IsLeap(y) THEN 1 ELSE 0)

\* date.toordinal: 0001-01-01 is day 1
Ymd2Ord(y, m, d) == DaysBeforeYear(y) + DaysBeforeMonth(y, m) + d

DI400Y == DaysBeforeYear(401)
DI100Y == DaysBeforeYear(101)
DI4Y == DaysBeforeYear(5)

MaxOrdinal == Ymd2Ord(MAXYEAR, 12, 31)

\* date.fromordinal
Ord2Ymd(ordinal) ==
    LET n0 == ordinal - 1
        n400 == n0 \div DI400Y
        r400 == n0 % DI400Y
        n100 == r400 \div DI100Y
        r100 == r400 % DI100Y
        n4 == r100 \div DI4Y
        r4 == r100 % DI4Y
        n1 == r4 \div 365
        n == r4 % 365
        year == n400 * 400 + 1 + n100 * 100 + n4 * 4 + n1
        leapyear == n1 = 3 /\ (n4 # 24 \/ n100 = 3)
        month0 == (n + 50) \div 32
        preceding0 == DaysBeforeMonthTable[month0]
                      + (IF month0 > 2 /\ leapyear THEN 1 ELSE 0)
        month == IF preceding0 > n THEN month0 - 1 ELSE month0
        preceding == IF preceding0 > n
                     THEN preceding0 - DaysInMonth(year, month)
                     ELSE preceding0
    IN  IF n1 = 4 \/ n100 = 4
        THEN [year |-> year - 1, month |-> 12, day |-> 31]
        ELSE [year |-> year, month |-> month, day |-> n - preceding + 1]

\* Monday = 0 ... Sunday = 6
Weekday(ordinal) == (ordinal + 6) % 7

\* ------------------------------------------- the C library's localtime

\* POSIX TZ values: the string alone fixes the rule, for every year
TZ_UTC == "UTC0"
TZ_EST == "EST5"
TZ_BST == "GMT0BST,M3.5.0/1,M10.5.0"

Zones == {TZ_UTC, TZ_EST, TZ_BST}

\* Mm.5.0: the last Sunday of month m
LastSunday(y, m) ==
    LET last == Ymd2Ord(y, m, DaysInMonth(y, m))
    IN  last - ((Weekday(last) + 1) % 7)

\* day o1, second s1 comes before day o2, second s2
Before(o1, s1, o2, s2) == o1 < o2 \/ (o1 = o2 /\ s1 < s2)

\* M3.5.0/1,M10.5.0: summer time runs from 01:00 UTC on the last Sunday of
\* March to 01:00 UTC (02:00 summer time) on the last Sunday of October
InSummer(c) ==
    \E y \in {Ord2Ymd(c.ord).year} :
        /\ ~Before(c.ord, c.sec, LastSunday(y, 3), 3600)
        /\ Before(c.ord, c.sec, LastSunday(y, 10), 3600)

\* seconds east of UTC that zone z is at UTC instant c
UtcOffset(z, c) ==
    IF z = TZ_EST THEN -5 * 3600
    ELSE IF z = TZ_BST THEN (IF InSummer(c) THEN 3600 ELSE 0)
    ELSE 0

\* the local day and second of the day of UTC instant c in zone z
LocalOrd(z, c) == c.ord + ((c.sec + UtcOffset(z, c)) \div SecondsPerDay)
LocalSec(z, c) == (c.sec + UtcOffset(z, c)) % SecondsPerDay

\* the struct tm of local day o, second s of that day; tm_sec is 60 within
\* an inserted leap second
BrokenDown(o, s, leap) ==
    [tm_year |-> Ord2Ymd(o).year, tm_mon |-> Ord2Ymd(o).month,
     tm_mday |-> Ord2Ymd(o).day,
     tm_hour |-> s \div 3600, tm_min |-> (s % 3600) \div 60,
     tm_sec |-> IF leap THEN 60 ELSE s % 60]

\* localtime_r: the zone's offset is applied, then the day is broken down
Localtime(z, c) ==
    CHOOSE t \in { BrokenDown(o, s, c.leap) :
                   o \in {LocalOrd(z, c)}, s \in {LocalSec(z, c)} } : TRUE

NoTm == [tm_year |-> 0, tm_mon |-> 0, tm_mday |-> 0,
         tm_hour |-> 0, tm_min |-> 0, tm_sec |-> 0]

\* ----------------------------------------------------- datetime.now()

\* variant: a command-line switch selects the zone
LocalZoneFromArgv(r) == IF argv[r] = <<"--utc">> THEN TZ_UTC ELSE env[r].TZ

\* the zone datetime.now() converts to: tzset() reads TZ
LocalZone(r) == env[r].TZ

\* datetime.now() raises (OSError, OverflowError, ValueError "year 10000 is
\* out of range") instead of returning
NowFails(r) ==
    \/ ~readable
    \/ \E o \in {LocalOrd(LocalZone(r), clock)} :
        o < Ymd2Ord(MINYEAR, 1, 1) \/ o > MaxOrdinal

\* variant: tm_sec is passed on as it is
NoClamp(s) == s

\* a leap second of the platform is clamped: second = min(59, tm_sec)
ClampSecond(s) == IF s > 59 THEN 59 ELSE s

\* the naive datetime built from the struct tm
FromTm(t) ==
    [year |-> t.tm_year, month |-> t.tm_mon, day |-> t.tm_mday,
     hour |-> t.tm_hour, minute |-> t.tm_min, second |-> ClampSecond(t.tm_sec)]

NoDatetime == [year |-> 0, month |-> 0, day |-> 0,
               hour |-> 0, minute |-> 0, second |-> 0]

\* ------------------------------------------------------------ strftime

\* a string is the sequence of its characters
DigitChars == <<"0", "1", "2", "3", "4", "5", "6", "7", "8", "9">>

RECURSIVE Dec(_)
\* n >= 0 in decimal, no padding
Dec(n) == IF n < 10 THEN <<DigitChars[n + 1]>>
          ELSE Dec(n \div 10) \o <<DigitChars[(n % 10) + 1]>>

RECURSIVE ZeroPad(_, _)
\* s padded on the left with "0" to width w
ZeroPad(s, w) == IF Len(s) >= w THEN s ELSE ZeroPad(<<"0">> \o s, w)

\* %m %d %H %M %S
Fmt2(n) == ZeroPad(Dec(n), 2)

\* %Y: the C library prints the year unpadded; a build that normalizes the
\* century pads it to four digits
FmtYear(y) == IF normalize_century THEN ZeroPad(Dec(y), 4) ELSE Dec(y)

\* variant: the hour on the 12-hour clock (%I)
StrftimeTwelveHour(d) ==
    FmtYear(d.year) \o <<"-">> \o Fmt2(d.month) \o <<"-">> \o Fmt2(d.day)
    \o <<" ">> \o Fmt2(IF d.hour % 12 = 0 THEN 12 ELSE d.hour % 12)
    \o <<":">> \o Fmt2(d.minute) \o <<":">> \o Fmt2(d.second)

\* d.strftime("%Y-%m-%d %H:%M:%S")
Strftime(d) ==
    FmtYear(d.year) \o <<"-">> \o Fmt2(d.month) \o <<"-">> \o Fmt2(d.day)
    \o <<" ">> \o Fmt2(d.hour) \o <<":">> \o Fmt2(d.minute)
    \o <<":">> \o Fmt2(d.second)

Undefined == [defined |-> FALSE, value |-> <<>>]
Str(s) == [defined |-> TRUE, value |-> s]

\* what print(s) writes: the string and the line end
PrintLine(s) == s \o <<"\n">>

\* ------------------------------------------------------- the host clock

\* the days at whose end the platform inserts a leap second
LeapDays == {Ymd2Ord(2016, 12, 31)}

Instant(y, m, d, hh, mm, ss) ==
    [ord |-> Ymd2Ord(y, m, d), sec |-> hh * 3600 + mm * 60 + ss, leap |-> FALSE]

\* UTC instants the clock starts at, each shortly before a boundary
Anchors ==
    { Instant(999, 12, 31, 23, 59, 58),     \* year 999 -> 1000
      Instant(2016, 12, 31, 23, 59, 58),    \* a leap second, then midnight
      Instant(2024, 3, 7, 14, 5, 8),
      Instant(2024, 10, 27, 0, 59, 58),     \* summer time ends at 01:00 UTC
      Instant(9999, 12, 31, 23, 59, 58) }   \* the last year of datetime

\* the clock one second later
NextSecond(c) ==
    IF c.sec = SecondsPerDay - 1 /\ ~c.leap /\ c.ord \in LeapDays
    THEN [c EXCEPT !.leap = TRUE]
    ELSE IF c.sec = SecondsPerDay - 1
    THEN [ord |-> c.ord + 1, sec |-> 0, leap |-> FALSE]
    ELSE [c EXCEPT !.sec = c.sec + 1]

\* ---------------------------------------------------- a run's inputs

MAIN == "__main__"

\* how the file is loaded: __name__, sys.argv[1:], os.environ
Invocations ==
    { [name |-> MAIN, argv |-> <<>>, env |-> [TZ |-> TZ_UTC, LANG |-> "C"]],
      [name |-> MAIN, argv |-> <<>>, env |-> [TZ |-> TZ_EST, LANG |-> "C"]],
      [name |-> MAIN, argv |-> <<>>, env |-> [TZ |-> TZ_BST, LANG |-> "C"]],
      [name |-> MAIN, argv |-> <<"--utc">>,
       env |-> [TZ |-> TZ_BST, LANG |-> "fa_IR"]],
      [name |-> "get_timestamp", argv |-> <<>>,
       env |-> [TZ |-> TZ_UTC, LANG |-> "C"]] }

\* ------------------------------------------------------------- actions

Init ==
    /\ \/ readable = TRUE /\ clock \in Anchors
       \/ readable = FALSE /\ clock = Instant(2024, 3, 7, 14, 5, 8)
    /\ ticks = 0
    /\ normalize_century \in BOOLEAN
    /\ fs = {}
    /\ pc = [r \in Runs |-> "idle"]
    /\ name = [r \in Runs |-> MAIN]
    /\ argv = [r \in Runs |-> <<>>]
    /\ env = [r \in Runs |-> [TZ |-> TZ_UTC, LANG |-> "C"]]
    /\ t_start = [r \in Runs |-> 0]
    /\ t_now = [r \in Runs |-> 0]
    /\ reads = [r \in Runs |-> 0]
    /\ tm = [r \in Runs |-> NoTm]
    /\ dt = [r \in Runs |-> NoDatetime]
    /\ timestamp = [r \in Runs |-> Undefined]
    /\ stdout = [r \in Runs |-> <<>>]
    /\ exit_code = [r \in Runs |-> -1]

\* the host clock advances by one second
Tick ==
    /\ ticks < MaxTicks
    /\ clock' = NextSecond(clock)
    /\ ticks' = ticks + 1
    /\ UNCHANGED <<readable, normalize_century, fs>>
    /\ UNCHANGED <<inputs, locals, pc, stdout, exit_code>>

\* the file is run (python get_timestamp.py ...) or imported; the runs are
\* numbered in the order they are started
Exec(r) ==
    /\ pc[r] = "idle"
    /\ \A q \in Runs : q < r => pc[q] # "idle"
    /\ \E i \in Invocations :
        /\ name' = [name EXCEPT ![r] = i.name]
        /\ argv' = [argv EXCEPT ![r] = i.argv]
        /\ env' = [env EXCEPT ![r] = i.env]
    /\ t_start' = [t_start EXCEPT ![r] = ticks]
    /\ pc' = [pc EXCEPT ![r] = "guard"]
    /\ UNCHANGED <<host, locals, stdout, exit_code>>

\* variant: no guard, the body runs on every load
GuardMissing(r) ==
    /\ pc[r] = "guard"
    /\ pc' = [pc EXCEPT ![r] = "now"]
    /\ UNCHANGED <<host, inputs, locals, stdout, exit_code>>

\* line 8: if __name__ == "__main__":
Guard(r) ==
    /\ pc[r] = "guard"
    /\ IF name[r] = MAIN
       THEN /\ pc' = [pc EXCEPT ![r] = "now"]
            /\ UNCHANGED exit_code
       ELSE /\ pc' = [pc EXCEPT ![r] = "exit"]
            /\ exit_code' = [exit_code EXCEPT ![r] = 0]
    /\ UNCHANGED <<host, inputs, locals, stdout>>

\* variant: the date and the time come from two calls of datetime.now()
NowTwice(r) ==
    /\ pc[r] = "now"
    /\ ~NowFails(r)
    /\ reads' = [reads EXCEPT ![r] = reads[r] + 2]
    /\ t_now' = [t_now EXCEPT ![r] = ticks]
    /\ \E t \in {Localtime(LocalZone(r), clock)} :
        /\ tm' = [tm EXCEPT ![r] = t]
        /\ dt' = [dt EXCEPT ![r] = FromTm(t)]
    /\ pc' = [pc EXCEPT ![r] = "strftime"]
    /\ UNCHANGED <<host, inputs, timestamp, stdout, exit_code>>

\* line 9: datetime.now() returns
Now(r) ==
    /\ pc[r] = "now"
    /\ ~NowFails(r)
    /\ reads' = [reads EXCEPT ![r] = reads[r] + 1]
    /\ t_now' = [t_now EXCEPT ![r] = ticks]
    /\ \E t \in {Localtime(LocalZone(r), clock)} :
        /\ tm' = [tm EXCEPT ![r] = t]
        /\ dt' = [dt EXCEPT ![r] = FromTm(t)]
    /\ pc' = [pc EXCEPT ![r] = "strftime"]
    /\ UNCHANGED <<host, inputs, timestamp, stdout, exit_code>>

\* variant: the failure is caught and a placeholder line is printed
NowRaisesHandled(r) ==
    /\ pc[r] = "now"
    /\ NowFails(r)
    /\ reads' = [reads EXCEPT ![r] = reads[r] + 1]
    /\ t_now' = [t_now EXCEPT ![r] = ticks]
    /\ stdout' = [stdout EXCEPT ![r] = Append(stdout[r], PrintLine(Strftime(NoDatetime)))]
    /\ pc' = [pc EXCEPT ![r] = "exit"]
    /\ exit_code' = [exit_code EXCEPT ![r] = 0]
    /\ UNCHANGED <<host, inputs, tm, dt, timestamp>>

\* line 9: datetime.now() raises; nothing catches it, the traceback goes
\* to standard error and the process exits with status 1
NowRaises(r) ==
    /\ pc[r] = "now"
    /\ NowFails(r)
    /\ reads' = [reads EXCEPT ![r] = reads[r] + 1]
    /\ t_now' = [t_now EXCEPT ![r] = ticks]
    /\ pc' = [pc EXCEPT ![r] = "raised"]
    /\ exit_code' = [exit_code EXCEPT ![r] = 1]
    /\ UNCHANGED <<host, inputs, tm, dt, timestamp, stdout>>

\* line 9: timestamp = <datetime>.strftime("%Y-%m-%d %H:%M:%S")
Format(r) ==
    /\ pc[r] = "strftime"
    /\ timestamp' = [timestamp EXCEPT ![r] = Str(Strftime(dt[r]))]
    /\ pc' = [pc EXCEPT ![r] = "print"]
    /\ UNCHANGED <<host, inputs, t_now, reads, tm, dt, stdout, exit_code>>

\* variant: the line is also appended to a log file
PrintAndLog(r) ==
    /\ pc[r] = "print"
    /\ stdout' = [stdout EXCEPT ![r] = Append(stdout[r], PrintLine(timestamp[r].value))]
    /\ fs' = fs \cup {timestamp[r].value}
    /\ pc' = [pc EXCEPT ![r] = "exit"]
    /\ exit_code' = [exit_code EXCEPT ![r] = 0]
    /\ UNCHANGED <<clock, readable, ticks, normalize_century, inputs, locals>>

\* line 10: print(timestamp), then the end of the file
PrintTimestamp(r) ==
    /\ pc[r] = "print"
    /\ stdout' = [stdout EXCEPT ![r] = Append(stdout[r], PrintLine(timestamp[r].value))]
    /\ pc' = [pc EXCEPT ![r] = "exit"]
    /\ exit_code' = [exit_code EXCEPT ![r] = 0]
    /\ UNCHANGED <<host, inputs, locals>>

Step(r) == Guard(r) \/ Now(r) \/ NowRaises(r) \/ Format(r) \/ PrintTimestamp(r)

Next == Tick \/ \E r \in Runs : Exec(r) \/ Step(r)

Spec == Init /\ [][Next]_vars

\* ------------------------------------------- reading a printed line
\* (the vocabulary of the properties below: what a reader of standard
\* output sees in a line, independent of how strftime built it)

\* run r was run as the main program and has ended normally
Printed(r) == pc[r] = "exit" /\ name[r] = MAIN

\* the first write of run r to standard output
Line(r) == stdout[r][1]

IsDigit(c) == \E i \in 1..10 : DigitChars[i] = c
DigitVal(c) == (CHOOSE i \in 1..10 : DigitChars[i] = c) - 1

\* code points of the characters a line can hold
CharCode(c) ==
    IF c = "\n" THEN 10
    ELSE IF c = " " THEN 32
    ELSE IF c = "-" THEN 45
    ELSE IF c = ":" THEN 58
    ELSE 48 + DigitVal(c)

\* a <= b as Python compares str: by code point, a prefix first
LexLeq(a, b) ==
    LET n == IF Len(a) < Len(b) THEN Len(a) ELSE Len(b)
        diff == {i \in 1..n : a[i] # b[i]}
    IN  IF diff = {} THEN Len(a) <= Len(b)
        ELSE LET i == CHOOSE k \in diff : \A j \in diff : k <= j
             IN  CharCode(a[i]) < CharCode(b[i])

RECURSIVE Num(_)
\* the number a sequence of digits writes
Num(s) == IF s = <<>> THEN 0
          ELSE 10 * Num(SubSeq(s, 1, Len(s) - 1)) + DigitVal(s[Len(s)])

RECURSIVE Split(_, _, _)
\* the runs of digits of s, after the runs acc and the open run cur
Split(s, cur, acc) ==
    IF s = <<>> THEN Append(acc, cur)
    ELSE IF IsDigit(Head(s)) THEN Split(Tail(s), Append(cur, Head(s)), acc)
    ELSE Split(Tail(s), <<>>, Append(acc, cur))

\* s cut at every character that is no digit: the runs of digits between
Fields(s) == Split(s, <<>>, <<>>)

\* n in exactly w decimal digits
FixedWidth(n, w) == [i \in 1..w |-> DigitChars[((n \div (10 ^ (w - i))) % 10) + 1]]

\* a line without its line end
Chomp(l) == SubSeq(l, 1, Len(l) - 1)

\* -------------------------------------------------------------- claims

\* C1: every run as the main program with a valid clock reading writes
\* exactly one line of 20 characters, YYYY-MM-DD HH:MM:SS and a line end:
\* digits at 1-4, 6-7, 9-10, 12-13, 15-16, 18-19, "-" at 5 and 8, a space
\* at 11, ":" at 14 and 17.
C1_LineShape ==
    \A r \in Runs : Printed(r) =>
        /\ Len(stdout[r]) = 1
        /\ Len(Line(r)) = 20
        /\ \A i \in 1..20 :
            IF i \in {5, 8} THEN Line(r)[i] = "-"
            ELSE IF i = 11 THEN Line(r)[i] = " "
            ELSE IF i \in {14, 17} THEN Line(r)[i] = ":"
            ELSE IF i = 20 THEN Line(r)[i] = "\n"
            ELSE IsDigit(Line(r)[i])

\* C2: for every reading Y, M, D, h, m, s returned by datetime.now() the
\* printed line is Y in four zero-padded digits, "-", M in two, "-", D in
\* two, a space, h ":" m ":" s in two digits each.
C2_LineIsPaddedFields ==
    \A r \in Runs : Printed(r) =>
        Chomp(Line(r)) =
            FixedWidth(dt[r].year, 4) \o <<"-">> \o FixedWidth(dt[r].month, 2)
            \o <<"-">> \o FixedWidth(dt[r].day, 2) \o <<" ">>
            \o FixedWidth(dt[r].hour, 2) \o <<":">> \o FixedWidth(dt[r].minute, 2)
            \o <<":">> \o FixedWidth(dt[r].second, 2)

\* C5: in every printed line the fields are in their calendar ranges: month
\* 01..12, day 01..31, hour 00..23, minute 00..59, second 00..59 (never 60,
\* also within a leap second), two digits each, and the line holds nothing
\* but digits and the separators (no AM/PM designator).
C5_FieldsInRange ==
    \A r \in Runs : Printed(r) =>
        LET f == Fields(Chomp(Line(r)))
        IN  /\ \A i \in 1..Len(Chomp(Line(r))) :
                 IsDigit(Line(r)[i]) \/ Line(r)[i] \in {"-", " ", ":"}
            /\ Len(f) = 6
            /\ \A i \in 2..6 : Len(f[i]) = 2
            /\ Num(f[2]) \in 1..12
            /\ Num(f[3]) \in 1..31
            /\ Num(f[4]) \in 0..23
            /\ Num(f[5]) \in 0..59
            /\ Num(f[6]) \in 0..59

\* C5's case: the platform reported second 60 and the run printed a line
C5_Witness ==
    \E r \in Runs : Printed(r) /\ tm[r].tm_sec = 60

\* the last eight characters before the line end, and what precedes them
TimePart(l) == SubSeq(l, Len(l) - 8, Len(l) - 1)
DatePart(l) == SubSeq(l, 1, Len(l) - 10)

\* the date part of l writes year y, month m, day d
DateIs(l, y, m, d) ==
    LET f == Fields(DatePart(l))
    IN  /\ Len(f) = 3
        /\ l[Len(l) - 9] = " "
        /\ \A i \in 1..3 : f[i] # <<>>
        /\ Num(f[1]) = y /\ Num(f[2]) = m /\ Num(f[3]) = d

\* C6: a reading of local midnight prints 00:00:00 after the date of the day
\* that starts; a reading of 23:59:59 prints 23:59:59 after the date of the
\* day that ends.
C6_DayEnds ==
    \A r \in Runs : Printed(r) =>
        /\ (tm[r].tm_hour = 0 /\ tm[r].tm_min = 0 /\ tm[r].tm_sec = 0) =>
            /\ TimePart(Line(r)) = <<"0", "0", ":", "0", "0", ":", "0", "0">>
            /\ DateIs(Line(r), tm[r].tm_year, tm[r].tm_mon, tm[r].tm_mday)
        /\ (tm[r].tm_hour = 23 /\ tm[r].tm_min = 59 /\ tm[r].tm_sec = 59) =>
            /\ TimePart(Line(r)) = <<"2", "3", ":", "5", "9", ":", "5", "9">>
            /\ DateIs(Line(r), tm[r].tm_year, tm[r].tm_mon, tm[r].tm_mday)

\* C6's case: one run printed the last second of 2016 and the other the
\* midnight that starts 2017
C6_Witness ==
    \E a, b \in Runs :
        /\ Printed(a) /\ Printed(b)
        /\ Line(a) = <<"2", "0", "1", "6", "-", "1", "2", "-", "3", "1", " ",
                       "2", "3", ":", "5", "9", ":", "5", "9", "\n">>
        /\ Line(b) = <<"2", "0", "1", "7", "-", "0", "1", "-", "0", "1", " ",
                       "0", "0", ":", "0", "0", ":", "0", "0", "\n">>

\* C3: of two runs in the same environment, the second started more than
\* one second after the first (and after the first read the clock), the
\* clock only moving forward, the second prints a line that is
\* lexicographically greater than or equal to the first's (read here for
\* years of four digits, where the width of the year plays no part).
C3_NonDecreasing ==
    \A a, b \in Runs :
        ( /\ Printed(a) /\ Printed(b)
          /\ env[a] = env[b]
          /\ dt[a].year >= 1000 /\ dt[b].year >= 1000
          /\ t_start[b] > t_start[a] + 1
          /\ t_now[a] <= t_start[b] )
        => LexLeq(Line(a), Line(b))

\* two runs that read the clock at the same instant and printed
SameInstant(a, b) ==
    Printed(a) /\ Printed(b) /\ t_now[a] = t_now[b]

Own(r) == <<pc[r], name[r], argv[r], env[r], t_start[r], t_now[r], reads[r],
            tm[r], dt[r], timestamp[r], stdout[r], exit_code[r]>>

\* C7: a run writes to standard output exactly once and changes nothing
\* else: the persisted state and the host stay as they are, a step of one
\* run leaves every other run as it is, and under any interleaving two runs
\* with the same clock reading have the same output.
C7_OnlyOneWrite ==
    [][ /\ fs' = fs
        /\ readable' = readable
        /\ normalize_century' = normalize_century
        /\ (clock' # clock => \A r \in Runs : Own(r)' = Own(r))
        /\ \A r \in Runs :
            /\ Len(stdout'[r]) <= 1
            /\ Printed(r)' => Len(stdout'[r]) = 1
            /\ Own(r)' # Own(r) =>
                (clock' = clock /\ \A q \in Runs \ {r} : Own(q)' = Own(q))
        /\ \A a, b \in Runs :
            (Printed(a)' /\ Printed(b)' /\ tm'[a] = tm'[b])
            => stdout'[a] = stdout'[b]
      ]_vars

\* C7's case: both runs have printed, interleaved, from the same reading
C7_Witness ==
    /\ \A r \in Runs : Printed(r) /\ Len(stdout[r]) = 1
    /\ tm[1] = tm[2]
    /\ t_start[1] = t_start[2]

\* C8: a failing clock read is not handled: the run ends with the
\* exception (exit status 1, no retry) and has written no line, and no
\* timestamp was made.
C8_FailurePropagates ==
    [][ \A r \in Runs :
        /\ (pc[r] = "now" /\ NowFails(r) /\ pc'[r] # pc[r]) => pc'[r] = "raised"
        /\ pc[r] = "raised" => pc'[r] = "raised"
        /\ pc'[r] = "raised" =>
            /\ stdout'[r] = <<>>
            /\ exit_code'[r] = 1
            /\ ~timestamp'[r].defined
      ]_vars

\* C8's case: the clock was unreadable and the run has ended
C8_Witness ==
    \E r \in Runs : pc[r] = "raised" /\ ~readable

\* C8's other case: the local time is past the last year of datetime
C8_WitnessRange ==
    \E r \in Runs : pc[r] = "raised" /\ readable

\* the steps of a run as the main program whose clock read succeeds
MainOrder ==
    { <<"guard", "now">>, <<"now", "strftime">>,
      <<"strftime", "print">>, <<"print", "exit">> }

\* C9: a run as the main program with a readable clock ends with status 0
\* after one pass: guard, clock read, format, print, in this order, each
\* once, the clock read exactly once; until it has ended its next step can
\* always be taken (nothing blocks or waits), so a scheduled run ends.
C9_SinglePass ==
    [][ \A r \in Runs :
        /\ (name[r] = MAIN /\ pc[r] \notin {"idle", "raised"}
            /\ ~(pc[r] = "now" /\ NowFails(r)) /\ pc'[r] # pc[r])
           => <<pc[r], pc'[r]>> \in MainOrder
        /\ pc[r] \in {"guard", "now", "strftime", "print"} => ENABLED Step(r)
        /\ reads'[r] <= 1
        /\ pc'[r] \in {"strftime", "print"} => reads'[r] = 1
        /\ Printed(r)' => (reads'[r] = 1 /\ exit_code'[r] = 0)
      ]_vars

\* C9's case: a run as the main program has ended normally
C9_Witness ==
    \E r \in Runs : Printed(r) /\ reads[r] = 1 /\ Len(stdout[r]) = 1

\* C10: loaded under another module name, the file reads no clock, writes
\* nothing to standard output and defines no timestamp.
C10_ImportDoesNothing ==
    \A r \in Runs : (pc[r] # "idle" /\ name[r] # MAIN) =>
        /\ pc[r] \in {"guard", "exit"}
        /\ reads[r] = 0
        /\ stdout[r] = <<>>
        /\ ~timestamp[r].defined
        /\ tm[r] = NoTm /\ dt[r] = NoDatetime

\* C10's case: an import has completed
C10_Witness ==
    \E r \in Runs : name[r] # MAIN /\ pc[r] = "exit" /\ exit_code[r] = 0

====
